---- MODULE Spec2Model ----
(***************************************************************************)
(* Connect 4 move-selection engine (src/prova.py): board model, terminal   *)
(* detector, Monte Carlo evaluator, MCTS, alpha-beta minimax with Monte    *)
(* Carlo leaf evaluator, and the move selector.                            *)
(*                                                                         *)
(* A board is a function  column -> row -> {0, 1, -1}; board[c][r] is the  *)
(* NumPy cell board[c, r] (row 0 is the bottom of a column).               *)
(***************************************************************************)
EXTENDS Integers, Sequences, FiniteSets, TLC

\* ------------------------------------------------------------------------
\* Program constants
\* ------------------------------------------------------------------------
NUM_COLUMNS == 7
COLUMN_HEIGHT == 6
FOUR == 4
MAX_ROUNDS == NUM_COLUMNS * COLUMN_HEIGHT
MAX_DEPTH == 3
SEARCH_ORDER == <<3, 2, 4, 1, 5, 0, 6>>

\* Python's None: a value different from every column, player, winner and score.
None == NUM_COLUMNS + MAX_ROUNDS

\* ------------------------------------------------------------------------
\* Bounds of the exploration
\* ------------------------------------------------------------------------
\* NUM_ITERATIONS, MC_ITERATIONS and montecarlo_samples are 1000, 20 and 100
\* in the source; the loops are explored with these smaller budgets.
NUM_ITERATIONS == 3
MC_ITERATIONS == 2
montecarlo_samples == 2
\* caller-level take_back calls explored in one run
MaxTakeBacks == 2
\* discs a caller drops with play on a board that started empty
MaxOpening == 3
\* the search engines are started only on boards with at most this many empty cells
MaxSearchEmpty == 5

Cols == 0 .. (NUM_COLUMNS - 1)
Rows == 0 .. (COLUMN_HEIGHT - 1)
Players == {1, -1}

\* ------------------------------------------------------------------------
\* Board model
\* ------------------------------------------------------------------------
initialize_board == [c \in Cols |-> [r \in Rows |-> 0]]

\* [n for n in range(NUM_COLUMNS) if board[n, COLUMN_HEIGHT - 1] == 0]
valid_moves(b) ==
  LET F[n \in 0 .. NUM_COLUMNS] ==
        IF n = NUM_COLUMNS THEN << >>
        ELSE IF b[n][COLUMN_HEIGHT - 1] = 0 THEN <<n>> \o F[n + 1] ELSE F[n + 1]
  IN  F[0]

InSeq(x, s) == \E i \in 1 .. Len(s) : s[i] = x

\* play with the index of the highest empty cell: the disc floats to the top
play_top(b, column, player) ==
  LET index == CHOOSE i \in Rows : b[column][i] = 0 /\ \A j \in Rows : j > i => b[column][j] # 0
  IN  [b EXCEPT ![column][index] = player]

\* index = first i with board[column][i] == 0 ; board[column, index] = player
play(b, column, player) ==
  LET index == CHOOSE i \in Rows : b[column][i] = 0 /\ \A j \in Rows : j < i => b[column][j] # 0
  IN  [b EXCEPT ![column][index] = player]

\* take_back clearing the first (lowest) occupied cell instead of the last
take_back_first(b, column) ==
  LET index == CHOOSE i \in Rows : b[column][i] # 0 /\ \A j \in Rows : j < i => b[column][j] = 0
  IN  [b EXCEPT ![column][index] = 0]

\* index = last i with board[column][i] != 0 ; board[column, index] = 0
take_back(b, column) ==
  LET index == CHOOSE i \in Rows : b[column][i] # 0 /\ \A j \in Rows : j > i => b[column][j] = 0
  IN  [b EXCEPT ![column][index] = 0]

\* np.count_nonzero(board)
round_number(b) == Cardinality({cr \in Cols \X Rows : b[cr[1]][cr[2]] # 0})

\* four_in_a_row without the falling-diagonal clause
four_in_a_row_no_falling(b, player) ==
  \/ \E c \in Cols : \E n \in 0 .. (COLUMN_HEIGHT - FOUR) :
       \A r \in n .. (n + FOUR - 1) : b[c][r] = player
  \/ \E r \in Rows : \E n \in 0 .. (NUM_COLUMNS - FOUR) :
       \A c \in n .. (n + FOUR - 1) : b[c][r] = player
  \/ \E ro \in 0 .. (NUM_COLUMNS - FOUR) : \E co \in 0 .. (COLUMN_HEIGHT - FOUR) :
       \A i \in 0 .. (FOUR - 1) : b[ro + i][co + i] = player

\* the four any(...) clauses of four_in_a_row, in the order of the source
four_in_a_row(b, player) ==
  \/ \E c \in Cols : \E n \in 0 .. (COLUMN_HEIGHT - FOUR) :
       \A r \in n .. (n + FOUR - 1) : b[c][r] = player
  \/ \E r \in Rows : \E n \in 0 .. (NUM_COLUMNS - FOUR) :
       \A c \in n .. (n + FOUR - 1) : b[c][r] = player
  \/ \E ro \in 0 .. (NUM_COLUMNS - FOUR) : \E co \in 0 .. (COLUMN_HEIGHT - FOUR) :
       \A i \in 0 .. (FOUR - 1) : b[ro + i][co + i] = player
  \/ \E ro \in 0 .. (NUM_COLUMNS - FOUR) : \E co \in 0 .. (COLUMN_HEIGHT - FOUR) :
       \A i \in 0 .. (FOUR - 1) : b[ro + i][co + FOUR - 1 - i] = player

\* terminal_state: fullness is tested first, then the two players' lines
terminal_state(b) ==
  IF round_number(b) = MAX_ROUNDS THEN 0
  ELSE IF four_in_a_row(b, 1) THEN 1
  ELSE IF four_in_a_row(b, -1) THEN -1
  ELSE None

\* Python truthiness of a score that is None or an integer (`if score:`)
Truthy(x) == x # None /\ x # 0

\* ------------------------------------------------------------------------
\* Boards the exploration starts from
\* ------------------------------------------------------------------------
\* A full board with no four-in-a-row: columns read AABBAA / BBAABB.
DrawBoard ==
  [c \in Cols |-> [r \in Rows |-> IF ((r \div 2) + c) % 2 = 0 THEN 1 ELSE -1]]

\* the board with the owner of the given cells <<c, r>> swapped
Flip(b, cells) ==
  [c \in Cols |-> [r \in Rows |-> IF <<c, r>> \in cells THEN 0 - b[c][r] ELSE b[c][r]]]

\* the board with only the lowest h[c + 1] discs of each column c kept
Truncate(b, h) ==
  [c \in Cols |-> [r \in Rows |-> IF r < h[c + 1] THEN b[c][r] ELSE 0]]

\* full boards: a draw, one top-row disc away from a row of A, a rising and a
\* falling diagonal of A
TopRowBoard == Flip(DrawBoard, {<<1, 5>>})
RisingBoard == Flip(DrawBoard, {<<2, 3>>, <<3, 4>>})
FallingBoard == Flip(DrawBoard, {<<3, 4>>, <<4, 3>>})

StartBoards == {initialize_board, DrawBoard, TopRowBoard, RisingBoard, FallingBoard}

\* ------------------------------------------------------------------------
\* State
\* ------------------------------------------------------------------------
VARIABLES
  board,      \* the caller's board
  pc,         \* "idle"; the engine a running call is in: "mcts", "minimax", "eval";
              \* "done": the call returned and the caller holds its result
  call,       \* the top-level call that is running or ran last
  result,     \* what the last finished call returned or raised
  plays,      \* discs dropped on the caller's board by play and choose_move
  takebacks,  \* discs removed from the caller's board by take_back
  mcts,       \* MCTS: its tree and the position of the iteration loop
  mm,         \* minimax: the stack of active calls, the last return value and the
              \* return statements the running top-level call went through
  leaf,       \* mc_simulation: the locals of the running leaf evaluation
  ev          \* eval_board / montecarlo / _mc: the locals of the running evaluation

vars == <<board, pc, call, result, plays, takebacks, mcts, mm, leaf, ev>>

NoCall ==
  [op |-> "none", player |-> 0, args |-> << >>, before |-> initialize_board,
   undo |-> FALSE, origin |-> initialize_board]
NoResult == [op |-> "none", move |-> None, score |-> None, error |-> "none"]
NoMcts ==
  [tree |-> << >>, budget |-> 0, it |-> 0, node |-> 0, phase |-> "off",
   simb |-> initialize_board, simp |-> 0, winner |-> None]
NoMm ==
  [stack |-> << >>, ret |-> [score |-> None, move |-> None, path |-> "none"], paths |-> {}]
NoLeaf ==
  [phase |-> "off", i |-> 0, best_score |-> 0, best_move |-> None, move |-> None,
   tmp_board |-> initialize_board, tmp_player |-> 0, tmp_move |-> None, score |-> None]
NoEv ==
  [phase |-> "off", player |-> 0, i |-> 0, cnt |-> <<0, 0, 0>>,
   b |-> initialize_board, p |-> 0, discs |-> << >>]

\* the engines run on boards with few empty cells only
SearchScope(b) == MAX_ROUNDS - round_number(b) <= MaxSearchEmpty

\* ------------------------------------------------------------------------
\* Return of the running top-level call
\* ------------------------------------------------------------------------
\* Finish that returns the move of choose_move without playing it
Finish_unapplied(mv, sc, b) ==
  /\ pc' = "done"
  /\ board' = b
  /\ plays' = plays
  /\ result' = [op |-> call.op, move |-> mv,
                score |-> IF call.op = "choose_move" THEN None ELSE sc, error |-> "none"]
  /\ UNCHANGED <<call, takebacks>>

\* The engine run by the call returned (sc, mv) with the caller's board being b.
\* choose_move (lines 337-340) then plays the move, if there is one.
Finish(mv, sc, b) ==
  /\ pc' = "done"
  /\ IF call.op = "choose_move"
       THEN /\ board' = IF mv # None THEN play(b, mv, call.player) ELSE b
            /\ plays' = IF mv # None THEN plays + 1 ELSE plays
            /\ result' = [op |-> call.op, move |-> mv, score |-> None, error |-> "none"]
       ELSE /\ board' = b
            /\ plays' = plays
            /\ result' = [op |-> call.op, move |-> mv, score |-> sc, error |-> "none"]
  /\ UNCHANGED <<call, takebacks>>

\* the ValueError np.random.choice raises when it is given an empty list
EmptyChoice == "ValueError: 'a' cannot be empty"

\* The engine raised: the exception leaves the call, and choose_move with it.
Raise(err) ==
  /\ pc' = "done"
  /\ result' = [op |-> call.op, move |-> None, score |-> None, error |-> err]
  /\ UNCHANGED <<board, call, plays, takebacks>>

\* ------------------------------------------------------------------------
\* MCTS
\* ------------------------------------------------------------------------
\* Node.__init__ ; parent 0 is None, num_wins2 is twice num_wins (a draw adds 0.5)
Node(b, player, parent, move) ==
  [board |-> b, player |-> player, parent |-> parent, move |-> move,
   num_visits |-> 0, num_wins2 |-> 0, childs |-> << >>, next_moves |-> valid_moves(b)]

\* MCTS whose loop runs one iteration short: range(num_iterations - 1)
MctsEntry_one_short(b, player, num_iterations) ==
  [tree |-> <<Node(b, 0 - player, 0, None)>>, budget |-> num_iterations - 1, it |-> 0,
   node |-> 1, phase |-> IF num_iterations - 1 > 0 THEN "select" ELSE "best",
   simb |-> initialize_board, simp |-> 0, winner |-> None]

\* MCTS lines 183-185: the root, made by the opponent of the side to move, and
\* the head of the for loop
MctsEntry(b, player, num_iterations) ==
  [tree |-> <<Node(b, 0 - player, 0, None)>>, budget |-> num_iterations, it |-> 0,
   node |-> 1, phase |-> IF num_iterations > 0 THEN "select" ELSE "best",
   simb |-> initialize_board, simp |-> 0, winner |-> None]

\* list.remove(x): the list without the first occurrence of x
Remove(s, x) ==
  LET k == CHOOSE i \in 1 .. Len(s) : s[i] = x /\ \A j \in 1 .. (i - 1) : s[j] # x
  IN  SubSeq(s, 1, k - 1) \o SubSeq(s, k + 1, Len(s))

\* np.log(n) * 10^6 for n = 1 .. 10, rounded down
LnMicro == <<0, 693147, 1098612, 1386294, 1609437, 1791759, 1945910, 2079441, 2197224, 2302585>>

\* integer square root
ISqrt(n) == CHOOSE k \in 0 .. 2200 : k * k <= n /\ (k + 1) * (k + 1) > n

\* UCB1 of node n of the tree, times 1000 and rounded down:
\*   num_wins / num_visits + sqrt(2) * sqrt(log(parent.num_visits) / num_visits)
\* The rounding keeps the order of the exact values as long as the parent has at
\* most 10 visits.
UCB1(tree, n) ==
  LET node == tree[n]
      exploitation == (node.num_wins2 * 500) \div node.num_visits
      exploration == ISqrt((2 * LnMicro[tree[node.parent].num_visits]) \div node.num_visits)
  IN  exploitation + exploration

\* Node.selection: max(self.childs, key=UCB1), the first child with the highest UCB1
selection(tree, n) ==
  LET cs == tree[n].childs
      k == CHOOSE i \in 1 .. Len(cs) :
             /\ \A j \in 1 .. Len(cs) : UCB1(tree, cs[j]) <= UCB1(tree, cs[i])
             /\ \A j \in 1 .. (i - 1) : UCB1(tree, cs[j]) < UCB1(tree, cs[i])
  IN  cs[k]

\* expand without line 153: the move stays among the untried moves
expand_keep_move(tree, n, move) ==
  LET player == 0 - tree[n].player
      new_board == play(tree[n].board, move, player)
      child == Len(tree) + 1
  IN  Append([tree EXCEPT ![n].childs = Append(@, child)],
             Node(new_board, player, n, move))

\* Node.expand: the tree with the new child appended (its index is Len(tree) + 1)
expand(tree, n, move) ==
  LET player == 0 - tree[n].player
      new_board == play(tree[n].board, move, player)
      child == Len(tree) + 1
  IN  Append([tree EXCEPT ![n].next_moves = Remove(@, move), ![n].childs = Append(@, child)],
             Node(new_board, player, n, move))

\* backpropagate that starts the walk at the parent of the simulated node
backpropagate_skip_node(tree, n, winner) ==
  LET A[k \in 0 .. Len(tree)] == IF k = 0 THEN {} ELSE {k} \cup A[tree[k].parent]
      gain(k) == IF winner = 0 THEN 1 ELSE IF winner = tree[k].player THEN 2 ELSE 0
  IN  [k \in 1 .. Len(tree) |->
         IF k \in A[tree[n].parent]
           THEN [tree[k] EXCEPT !.num_wins2 = @ + gain(k), !.num_visits = @ + 1]
           ELSE tree[k]]

\* backpropagate that updates the simulated node only, without the walk to the root
backpropagate_node_only(tree, n, winner) ==
  LET gain == IF winner = 0 THEN 1 ELSE IF winner = tree[n].player THEN 2 ELSE 0
  IN  [tree EXCEPT ![n].num_wins2 = @ + gain, ![n].num_visits = @ + 1]

\* Node.backpropagate: walk from node n up to the root
RECURSIVE backpropagate(_, _, _)
backpropagate(tree, n, winner) ==
  IF n = 0 THEN tree
  ELSE LET gain == IF winner = 0 THEN 1 ELSE IF winner = tree[n].player THEN 2 ELSE 0
           t == [tree EXCEPT ![n].num_wins2 = @ + gain, ![n].num_visits = @ + 1]
       IN  backpropagate(t, tree[n].parent, winner)

\* line 206: max(root.childs, key=num_wins/num_visits), the first child with the
\* highest ratio; the ratios are compared by cross-multiplication
best_node(tree) ==
  LET cs == tree[1].childs
      Better(a, b) == tree[a].num_wins2 * tree[b].num_visits > tree[b].num_wins2 * tree[a].num_visits
      k == CHOOSE i \in 1 .. Len(cs) :
             /\ \A j \in 1 .. Len(cs) : ~Better(cs[j], cs[i])
             /\ \A j \in 1 .. (i - 1) : Better(cs[i], cs[j])
  IN  cs[k]

\* SELECTION, lines 189-190: one turn of the while loop
MctsSelect ==
  /\ pc = "mcts" /\ mcts.phase = "select"
  /\ LET n == mcts.node
         cs == mcts.tree[n].childs IN
     /\ Len(cs) # 0 /\ Len(mcts.tree[n].next_moves) = 0
     /\ IF \E j \in 1 .. Len(cs) : mcts.tree[cs[j]].num_visits = 0
          THEN /\ Raise("ZeroDivisionError")
               /\ mcts' = NoMcts
          ELSE /\ mcts' = [mcts EXCEPT !.node = selection(mcts.tree, n)]
               /\ UNCHANGED <<board, pc, call, result, plays, takebacks>>
  /\ UNCHANGED <<mm, leaf, ev>>

\* EXPANSION and the terminal test of SIMULATION, lines 193-200
MctsExpand ==
  /\ pc = "mcts" /\ mcts.phase = "select"
  /\ LET n == mcts.node
         nm == mcts.tree[n].next_moves IN
     /\ ~(Len(mcts.tree[n].childs) # 0 /\ Len(nm) = 0)
     /\ \E k \in 1 .. (IF Len(nm) > 0 THEN Len(nm) ELSE 1) :
          LET tree2 == IF Len(nm) > 0 THEN expand(mcts.tree, n, nm[k]) ELSE mcts.tree
              node2 == IF Len(nm) > 0 THEN Len(tree2) ELSE n
              winner == terminal_state(tree2[node2].board)
          IN  mcts' = [mcts EXCEPT !.tree = tree2, !.node = node2, !.winner = winner,
                         !.phase = IF winner = None THEN "rollout" ELSE "backprop",
                         !.simb = IF winner = None THEN tree2[node2].board ELSE initialize_board,
                         !.simp = IF winner = None THEN 0 - tree2[node2].player ELSE 0]
  /\ UNCHANGED <<board, pc, call, result, plays, takebacks, mm, leaf, ev>>

\* Node.simulate, lines 161-168: one turn of the while loop, or its exit
MctsRollout ==
  /\ pc = "mcts" /\ mcts.phase = "rollout"
  /\ LET vm == valid_moves(mcts.simb) IN
     IF Len(vm) = 0
       THEN mcts' = [mcts EXCEPT !.winner = 0, !.phase = "backprop",
                       !.simb = initialize_board, !.simp = 0]
       ELSE \E k \in 1 .. Len(vm) :
              LET b2 == play(mcts.simb, vm[k], mcts.simp) IN
              IF four_in_a_row(b2, mcts.simp)
                THEN mcts' = [mcts EXCEPT !.winner = mcts.simp, !.phase = "backprop",
                                !.simb = initialize_board, !.simp = 0]
                ELSE mcts' = [mcts EXCEPT !.simb = b2, !.simp = 0 - mcts.simp]
  /\ UNCHANGED <<board, pc, call, result, plays, takebacks, mm, leaf, ev>>

\* BACKPROPAGATION, line 203, and the step of the for loop
MctsBackpropagate ==
  /\ pc = "mcts" /\ mcts.phase = "backprop"
  /\ mcts' = [mcts EXCEPT !.tree = backpropagate(mcts.tree, mcts.node, mcts.winner),
                !.it = mcts.it + 1, !.node = 1, !.winner = None,
                !.phase = IF mcts.it + 1 < mcts.budget THEN "select" ELSE "best"]
  /\ UNCHANGED <<board, pc, call, result, plays, takebacks, mm, leaf, ev>>

\* lines 206-207: the move of the best root child; max() of no child raises
MctsReturn ==
  /\ pc = "mcts" /\ mcts.phase = "best"
  /\ LET cs == mcts.tree[1].childs IN
     IF Len(cs) = 0 THEN Raise("ValueError")
     ELSE IF \E j \in 1 .. Len(cs) : mcts.tree[cs[j]].num_visits = 0
       THEN Raise("ZeroDivisionError")
     ELSE Finish(mcts.tree[best_node(mcts.tree)].move, None, board)
  /\ mcts' = NoMcts
  /\ UNCHANGED <<mm, leaf, ev>>

\* ------------------------------------------------------------------------
\* Alpha-beta minimax
\* ------------------------------------------------------------------------
\* can_win_next_move: the trial play / take_back pairs act on the board in place;
\* the result carries the board as the function leaves it.
RECURSIVE can_win_from(_, _, _, _, _)
can_win_from(b, player, moves, round_num, k) ==
  IF k > Len(moves) THEN [score |-> None, m |-> None, board |-> b]
  ELSE LET m == moves[k]
           b1 == play(b, m, player)
           score == IF four_in_a_row(b1, player)
                      THEN (MAX_ROUNDS - (round_num - 1)) \div 2
                      ELSE None
           b2 == take_back(b1, m)
       IN  IF Truthy(score) THEN [score |-> score, m |-> m, board |-> b2]
           ELSE can_win_from(b2, player, moves, round_num, k + 1)

\* can_win_next_move that scores with round_num in place of round_num - 1
can_win_next_move_off_by_one(b, player, moves, round_num) ==
  LET r == can_win_from(b, player, moves, round_num + 1, 1) IN r

can_win_next_move(b, player, moves, round_num) ==
  can_win_from(b, player, moves, round_num, 1)

\* max_score with the cap two rounds too low
max_score_too_low(round_num) == (MAX_ROUNDS - (round_num + 3)) \div 2

\* line 287: the highest score still possible when there is no win in one
max_score(round_num) == (MAX_ROUNDS - (round_num + 1)) \div 2

\* the locals of one minimax call; entry is the board the call was given
Frame(player, depth, alpha, beta, max_depth, b) ==
  [player |-> player, depth |-> depth, alpha |-> alpha, beta |-> beta,
   max_depth |-> max_depth, round_num |-> 0, moves |-> << >>, i |-> 1,
   best_move |-> None, m |-> None, pcf |-> "entry", entry |-> b]

MinimaxEntry(b, player, depth, alpha, beta, max_depth) ==
  [stack |-> <<Frame(player, depth, alpha, beta, max_depth, b)>>,
   ret |-> [score |-> None, move |-> None, path |-> "none"], paths |-> {}]

Front(s) == SubSeq(s, 1, Len(s) - 1)
Top(s) == s[Len(s)]

\* MinimaxReturn with the beta cutoff returning before take_back undoes the move
MinimaxReturn_cutoff_before_undo(score, move, path, b) ==
  LET top == Top(mm.stack)
      b0 == IF path = "cutoff" THEN board ELSE b
      r == [score |-> score, move |-> move, path |-> path, player |-> top.player,
            depth |-> top.depth, entry |-> top.entry, exit |-> b0]
  IN  /\ mm' = [mm EXCEPT !.stack = Front(mm.stack), !.ret = r, !.paths = @ \cup {path}]
      /\ IF Len(mm.stack) = 1
           THEN Finish(move, score, b0)
           ELSE /\ board' = b0
                /\ UNCHANGED <<pc, call, result, plays, takebacks>>

\* The call on top of the stack returns (score, move), the board being b. path
\* names the return statement: draw (275), win (282), prune (293), leaf (297),
\* cutoff (310), normal (316).
MinimaxReturn(score, move, path, b) ==
  LET top == Top(mm.stack)
      r == [score |-> score, move |-> move, path |-> path, player |-> top.player,
            depth |-> top.depth, entry |-> top.entry, exit |-> b]
  IN  /\ mm' = [mm EXCEPT !.stack = Front(mm.stack), !.ret = r, !.paths = @ \cup {path}]
      /\ IF Len(mm.stack) = 1
           THEN Finish(move, score, b)
           ELSE /\ board' = b
                /\ UNCHANGED <<pc, call, result, plays, takebacks>>

\* lines 271-297: the terminal tests, the clipping of beta, the prune and the
\* depth test of the call on top of the stack
MinimaxEnter ==
  /\ pc = "minimax" /\ Len(mm.stack) > 0 /\ Top(mm.stack).pcf = "entry"
  /\ LET top == Top(mm.stack)
         round_num == round_number(board)
     IN  IF round_num = MAX_ROUNDS
           THEN MinimaxReturn(0, None, "draw", board) /\ UNCHANGED leaf
           ELSE
             LET moves == valid_moves(board)
                 cw == can_win_next_move(board, top.player, moves, round_num)
                 beta == IF top.beta > max_score(round_num) THEN max_score(round_num)
                         ELSE top.beta
             IN  IF Truthy(cw.score)
                   THEN MinimaxReturn(cw.score, cw.m, "win", cw.board) /\ UNCHANGED leaf
                 ELSE IF top.alpha >= beta
                   THEN MinimaxReturn(beta, None, "prune", cw.board) /\ UNCHANGED leaf
                 ELSE
                   /\ board' = cw.board
                   /\ mm' = [mm EXCEPT !.stack[Len(mm.stack)] =
                               [top EXCEPT !.round_num = round_num, !.moves = moves,
                                           !.beta = beta, !.best_move = None, !.i = 1,
                                           !.pcf = IF top.depth > top.max_depth
                                                     THEN "leaf" ELSE "loop"]]
                   /\ leaf' = IF top.depth > top.max_depth
                                THEN [NoLeaf EXCEPT !.phase = "iter",
                                                    !.best_score = 0 - MAX_ROUNDS]
                                ELSE leaf
                   /\ UNCHANGED <<pc, call, result, plays, takebacks>>
  /\ UNCHANGED <<mcts, ev>>

\* lines 302-305 and 316: the next legal column of SEARCH_ORDER is played and the
\* recursive call is made (without max_depth: the callee takes the default), or
\* the loop ends and the call returns (alpha, best_move)
MinimaxLoop ==
  /\ pc = "minimax" /\ Len(mm.stack) > 0 /\ Top(mm.stack).pcf = "loop"
  /\ LET top == Top(mm.stack)
         cand == {j \in top.i .. Len(SEARCH_ORDER) : InSeq(SEARCH_ORDER[j], top.moves)}
     IN  IF cand = {}
           THEN MinimaxReturn(top.alpha, top.best_move, "normal", board)
           ELSE
             LET j == CHOOSE x \in cand : \A y \in cand : x <= y
                 m == SEARCH_ORDER[j]
                 b1 == play(board, m, top.player)
             IN  /\ board' = b1
                 /\ mm' = [mm EXCEPT !.stack =
                             Append([mm.stack EXCEPT ![Len(mm.stack)] =
                                       [top EXCEPT !.i = j + 1, !.m = m, !.pcf = "wait"]],
                                    Frame(0 - top.player, top.depth + 1,
                                          0 - top.beta, 0 - top.alpha, MAX_DEPTH, b1))]
                 /\ UNCHANGED <<pc, call, result, plays, takebacks>>
  /\ UNCHANGED <<mcts, leaf, ev>>

\* lines 306-314: the recursive call returned; undo the move, cut off or raise alpha
MinimaxResume ==
  /\ pc = "minimax" /\ Len(mm.stack) > 0 /\ Top(mm.stack).pcf = "wait"
  /\ LET top == Top(mm.stack)
         score == 0 - mm.ret.score
         b1 == take_back(board, top.m)
     IN  IF score >= top.beta
           THEN MinimaxReturn(score, top.m, "cutoff", b1)
           ELSE /\ board' = b1
                /\ mm' = [mm EXCEPT !.stack[Len(mm.stack)] =
                            IF score > top.alpha
                              THEN [top EXCEPT !.alpha = score, !.best_move = top.m,
                                               !.pcf = "loop"]
                              ELSE [top EXCEPT !.pcf = "loop"]]
                /\ UNCHANGED <<pc, call, result, plays, takebacks>>
  /\ UNCHANGED <<mcts, leaf, ev>>

\* ------------------------------------------------------------------------
\* mc_simulation, the leaf evaluator of minimax
\* ------------------------------------------------------------------------
\* lines 239-244 and 266: the head of the for loop draws the first move of a
\* playout, or the loop is over and (best_score, best_move) is returned
McSimulationIterate ==
  /\ pc = "minimax" /\ Len(mm.stack) > 0 /\ Top(mm.stack).pcf = "leaf"
  /\ leaf.phase = "iter"
  /\ LET top == Top(mm.stack)
         vm == valid_moves(board)
     IN  IF leaf.i >= MC_ITERATIONS
           THEN /\ MinimaxReturn(leaf.best_score, leaf.best_move, "leaf", board)
                /\ leaf' = NoLeaf
         ELSE IF Len(vm) = 0
           THEN /\ Raise(EmptyChoice)
                /\ mm' = NoMm
                /\ leaf' = NoLeaf
         ELSE \E k \in 1 .. Len(vm) :
                /\ leaf' = [leaf EXCEPT !.move = vm[k], !.tmp_board = board,
                                        !.tmp_player = top.player, !.tmp_move = vm[k],
                                        !.phase = "ply"]
                /\ UNCHANGED <<board, pc, call, result, plays, takebacks, mm>>
  /\ UNCHANGED <<mcts, ev>>

\* McSimulationPly with the test of lines 249-251 left out: a playout ends only
\* with a four-in-a-row
McSimulationPly_without_full_test ==
  /\ pc = "minimax" /\ Len(mm.stack) > 0 /\ Top(mm.stack).pcf = "leaf"
  /\ leaf.phase = "ply"
  /\ LET top == Top(mm.stack)
         tb == play(leaf.tmp_board, leaf.tmp_move, leaf.tmp_player)
         full == round_number(tb) = MAX_ROUNDS
         won == four_in_a_row(tb, leaf.tmp_player)
         magnitude == (MAX_ROUNDS - (round_number(tb) - 1)) \div 2
         score == IF leaf.tmp_player = top.player THEN magnitude ELSE 0 - magnitude
         vm == valid_moves(tb)
     IN  IF won
           THEN /\ leaf' = [leaf EXCEPT
                              !.best_score = IF score > leaf.best_score THEN score ELSE @,
                              !.best_move = IF score > leaf.best_score THEN leaf.move ELSE @,
                              !.i = leaf.i + 1, !.phase = "iter", !.tmp_board = tb,
                              !.score = score]
                /\ UNCHANGED <<board, pc, call, result, plays, takebacks, mm>>
         ELSE IF Len(vm) = 0
           THEN /\ Raise(EmptyChoice)
                /\ mm' = NoMm
                /\ leaf' = NoLeaf
         ELSE \E k \in 1 .. Len(vm) :
                /\ leaf' = [leaf EXCEPT !.tmp_board = tb, !.tmp_move = vm[k],
                                        !.tmp_player = 0 - leaf.tmp_player]
                /\ UNCHANGED <<board, pc, call, result, plays, takebacks, mm>>
  /\ UNCHANGED <<mcts, ev>>

\* lines 246-264: one turn of the while loop of a playout; a finished playout
\* updates best_score and best_move, and the locals keep its last board, mover,
\* move and score until the next playout starts
McSimulationPly ==
  /\ pc = "minimax" /\ Len(mm.stack) > 0 /\ Top(mm.stack).pcf = "leaf"
  /\ leaf.phase = "ply"
  /\ LET top == Top(mm.stack)
         tb == play(leaf.tmp_board, leaf.tmp_move, leaf.tmp_player)
         full == round_number(tb) = MAX_ROUNDS
         won == four_in_a_row(tb, leaf.tmp_player)
         magnitude == (MAX_ROUNDS - (round_number(tb) - 1)) \div 2
         score == IF full THEN 0
                  ELSE IF leaf.tmp_player = top.player THEN magnitude ELSE 0 - magnitude
         vm == valid_moves(tb)
     IN  IF full \/ won
           THEN /\ leaf' = [leaf EXCEPT
                              !.best_score = IF score > leaf.best_score THEN score ELSE @,
                              !.best_move = IF score > leaf.best_score THEN leaf.move ELSE @,
                              !.i = leaf.i + 1, !.phase = "iter", !.tmp_board = tb,
                              !.score = score]
                /\ UNCHANGED <<board, pc, call, result, plays, takebacks, mm>>
         ELSE IF Len(vm) = 0
           THEN /\ Raise(EmptyChoice)
                /\ mm' = NoMm
                /\ leaf' = NoLeaf
         ELSE \E k \in 1 .. Len(vm) :
                /\ leaf' = [leaf EXCEPT !.tmp_board = tb, !.tmp_move = vm[k],
                                        !.tmp_player = 0 - leaf.tmp_player]
                /\ UNCHANGED <<board, pc, call, result, plays, takebacks, mm>>
  /\ UNCHANGED <<mcts, ev>>

\* ------------------------------------------------------------------------
\* eval_board, montecarlo and _mc
\* ------------------------------------------------------------------------
\* ev.cnt counts the playouts won by A (cnt[1]), won by B (cnt[2]) and drawn
\* (cnt[3]); ev.discs lists the owners of the discs the running playout dropped.
Count(cnt, outcome) ==
  IF outcome = 1 THEN [cnt EXCEPT ![1] = @ + 1]
  ELSE IF outcome = -1 THEN [cnt EXCEPT ![2] = @ + 1]
  ELSE [cnt EXCEPT ![3] = @ + 1]

\* _mc line 64 with p = player: the first flip hands the move to the opponent
mc_first_p_plain(player) == player

\* _mc line 64: p = -player
mc_first_p(player) == 0 - player

\* montecarlo lines 76-77: the next playout starts on a copy of the board, or
\* all samples are drawn and (cnt[1] - cnt[-1]) / montecarlo_samples is returned
\* (result.score is the numerator)
MontecarloSample ==
  /\ pc = "eval" /\ ev.phase = "sample"
  /\ IF ev.i >= montecarlo_samples
       THEN /\ Finish(None, ev.cnt[1] - ev.cnt[2], board)
            /\ ev' = NoEv
       ELSE /\ ev' = [ev EXCEPT !.b = board, !.p = mc_first_p(ev.player), !.discs = << >>,
                                !.phase = "mc"]
            /\ UNCHANGED <<board, pc, call, result, plays, takebacks>>
  /\ UNCHANGED <<mcts, mm, leaf>>

\* _mc lines 65-71: one turn of the while loop, or its exit with a draw
McPly ==
  /\ pc = "eval" /\ ev.phase = "mc"
  /\ LET vm == valid_moves(ev.b) IN
     IF Len(vm) = 0
       THEN ev' = [ev EXCEPT !.cnt = Count(ev.cnt, 0), !.i = ev.i + 1, !.phase = "sample",
                             !.b = initialize_board, !.p = 0]
       ELSE \E k \in 1 .. Len(vm) :
              LET p == 0 - ev.p
                  b1 == play(ev.b, vm[k], p)
              IN  IF four_in_a_row(b1, p)
                    THEN ev' = [ev EXCEPT !.cnt = Count(ev.cnt, p), !.i = ev.i + 1,
                                          !.phase = "sample", !.b = initialize_board,
                                          !.p = 0, !.discs = Append(@, p)]
                    ELSE ev' = [ev EXCEPT !.b = b1, !.p = p, !.discs = Append(@, p)]
  /\ UNCHANGED <<board, pc, call, result, plays, takebacks, mcts, mm, leaf>>

\* ------------------------------------------------------------------------
\* The caller's operations
\* ------------------------------------------------------------------------
Strategies == {1, 2}
Budgets == 1 .. NUM_ITERATIONS
Depths == {1, MAX_DEPTH + 1}
Windows == {<<-1000, 1000>>, <<-1, 1>>, <<0, 1>>}
MaxDepths == {1, MAX_DEPTH}

\* the record of a call: its name, its player, its other arguments in the order
\* of the signature, and the board it is made on
NewCall(op, player, args) ==
  [op |-> op, player |-> player, args |-> args, before |-> board,
   undo |-> FALSE, origin |-> initialize_board]

\* play(board, column, player) by the caller, on a non-full column
Play(column, player) ==
  /\ pc = "idle"
  /\ board[column][COLUMN_HEIGHT - 1] = 0
  /\ round_number(board) < MaxOpening \/ SearchScope(board)
  /\ board' = play(board, column, player)
  /\ plays' = plays + 1
  /\ call' = NewCall("play", player, <<column>>)
  /\ result' = NoResult
  /\ pc' = "done"
  /\ UNCHANGED <<takebacks, mcts, mm, leaf, ev>>

\* take_back(board, column) by the caller, on a non-empty column, also right
\* after a play; undo tells that it follows a play on the same column, made on
\* the board origin
TakeBack(column) ==
  /\ pc = "idle" \/ (pc = "done" /\ call.op = "play")
  /\ board[column][0] # 0
  /\ takebacks < MaxTakeBacks
  /\ board' = take_back(board, column)
  /\ takebacks' = takebacks + 1
  /\ call' = [NewCall("take_back", 0, <<column>>) EXCEPT
                !.undo = (call.op = "play" /\ call.args = <<column>>),
                !.origin = call.before]
  /\ result' = NoResult
  /\ pc' = "done"
  /\ UNCHANGED <<plays, mcts, mm, leaf, ev>>

\* opening_moves with a random reply to the first move
opening_moves_random_reply(round_num) ==
  IF round_num = 0 THEN {3} ELSE {2, 3, 4}

\* lines 321-327: the columns the opening shortcuts choose from, on a board
\* holding round_num <= 2 discs
opening_moves(round_num) ==
  IF round_num = 0 \/ round_num = 1 THEN {3} ELSE {2, 3, 4}

\* choose_move(board, player, v)
ChooseMove(player, v) ==
  /\ pc = "idle"
  /\ call' = NewCall("choose_move", player, <<v>>)
  /\ takebacks' = takebacks
  /\ LET round_num == round_number(board) IN
     IF round_num <= 2
       THEN \* lines 321-329: np.random.choice among the opening columns
            \E move \in opening_moves(round_num) :
              /\ board' = play(board, move, player)
              /\ plays' = plays + 1
              /\ result' = [op |-> "choose_move", move |-> move, score |-> None,
                            error |-> "none"]
              /\ pc' = "done"
              /\ UNCHANGED <<mcts, mm, leaf, ev>>
     ELSE \* lines 332-335
          /\ SearchScope(board)
          /\ result' = NoResult
          /\ IF v = 1
               THEN /\ pc' = "mcts"
                    /\ mcts' = MctsEntry(board, player, NUM_ITERATIONS)
                    /\ mm' = NoMm
               ELSE /\ pc' = "minimax"
                    /\ mm' = MinimaxEntry(board, player, 1, -1000, 1000, MAX_DEPTH)
                    /\ mcts' = NoMcts
          /\ UNCHANGED <<board, plays, leaf, ev>>

\* MCTS(board, player, num_iterations) called directly
CallMCTS(player, num_iterations) ==
  /\ pc = "idle"
  /\ SearchScope(board)
  /\ call' = NewCall("MCTS", player, <<num_iterations>>)
  /\ result' = NoResult
  /\ pc' = "mcts"
  /\ mcts' = MctsEntry(board, player, num_iterations)
  /\ mm' = NoMm
  /\ UNCHANGED <<board, plays, takebacks, leaf, ev>>

\* minimax(board, player, depth, alpha, beta, max_depth) called directly
CallMinimax(player, depth, alpha, beta, max_depth) ==
  /\ pc = "idle"
  /\ SearchScope(board)
  /\ call' = NewCall("minimax", player, <<depth, alpha, beta, max_depth>>)
  /\ result' = NoResult
  /\ pc' = "minimax"
  /\ mm' = MinimaxEntry(board, player, depth, alpha, beta, max_depth)
  /\ mcts' = NoMcts
  /\ UNCHANGED <<board, plays, takebacks, leaf, ev>>

\* eval_board(board, player), lines 81-89
CallEvalBoard(player) ==
  /\ pc = "idle"
  /\ SearchScope(board)
  /\ call' = NewCall("eval_board", player, << >>)
  /\ mm' = NoMm /\ mcts' = NoMcts
  /\ IF four_in_a_row(board, 1)
       THEN /\ result' = [op |-> "eval_board", move |-> None, score |-> 1, error |-> "none"]
            /\ pc' = "done"
            /\ UNCHANGED ev
     ELSE IF four_in_a_row(board, -1)
       THEN /\ result' = [op |-> "eval_board", move |-> None, score |-> -1, error |-> "none"]
            /\ pc' = "done"
            /\ UNCHANGED ev
     ELSE /\ result' = NoResult
          /\ pc' = "eval"
          /\ ev' = [NoEv EXCEPT !.phase = "sample", !.player = player]
  /\ UNCHANGED <<board, plays, takebacks, leaf>>

\* the caller takes the result of the finished call and goes on
Continue ==
  /\ pc = "done"
  /\ pc' = "idle"
  /\ call' = NoCall
  /\ result' = NoResult
  /\ mm' = NoMm
  /\ UNCHANGED <<board, plays, takebacks, mcts, leaf, ev>>

\* ------------------------------------------------------------------------
\* Specifications
\* ------------------------------------------------------------------------
InitOn(boards) ==
  /\ board \in boards
  /\ pc = "idle"
  /\ call = NoCall
  /\ result = NoResult
  /\ plays = round_number(board)
  /\ takebacks = 0
  /\ mcts = NoMcts
  /\ mm = NoMm
  /\ leaf = NoLeaf
  /\ ev = NoEv

Init == InitOn(StartBoards)

\* Any sequence of play, take_back and choose_move, from the empty board or
\* from a full one. The boards have fewer than four empty cells when choose_move
\* runs a search, so that its minimax calls end before the depth cutoff.
Next ==
  \/ \E column \in Cols, player \in Players : Play(column, player)
  \/ \E column \in Cols : TakeBack(column)
  \/ \E player \in Players, v \in Strategies : ChooseMove(player, v)
  \/ Continue
  \/ MctsSelect \/ MctsExpand \/ MctsRollout \/ MctsBackpropagate \/ MctsReturn
  \/ MinimaxEnter \/ MinimaxLoop \/ MinimaxResume

Spec == Init /\ [][Next]_vars

\* One call of choose_move, MCTS, minimax or eval_board on a board with a few
\* empty cells, followed to its return; choose_move also on the empty board and
\* on boards with two discs.
SearchBoards ==
  { initialize_board, DrawBoard,
    Truncate(TopRowBoard, <<6, 6, 6, 5, 6, 6, 6>>),
    Truncate(DrawBoard, <<4, 6, 6, 6, 6, 6, 6>>),
    Truncate(TopRowBoard, <<6, 6, 6, 5, 6, 4, 6>>),
    Truncate(DrawBoard, <<6, 6, 6, 4, 4, 6, 6>>),
    Truncate(DrawBoard, <<6, 6, 4, 4, 5, 6, 6>>),
    Truncate(TopRowBoard, <<6, 6, 4, 6, 4, 6, 6>>),
    Truncate(TopRowBoard, <<6, 6, 4, 5, 6, 4, 6>>),
    Truncate(RisingBoard, <<6, 6, 6, 4, 5, 5, 6>>),
    play(play(initialize_board, 3, 1), 3, -1),
    play(play(initialize_board, 2, 1), 4, -1) }

InitSearch == InitOn(SearchBoards)

NextSearch ==
  \/ \E player \in Players, v \in Strategies : ChooseMove(player, v)
  \/ \E player \in Players, n \in Budgets : CallMCTS(player, n)
  \/ \E player \in Players, depth \in Depths, w \in Windows, max_depth \in MaxDepths :
       CallMinimax(player, depth, w[1], w[2], max_depth)
  \/ \E player \in Players : CallEvalBoard(player)
  \/ MctsSelect \/ MctsExpand \/ MctsRollout \/ MctsBackpropagate \/ MctsReturn
  \/ MinimaxEnter \/ MinimaxLoop \/ MinimaxResume
  \/ McSimulationIterate \/ McSimulationPly
  \/ MontecarloSample \/ McPly

SpecSearch == InitSearch /\ [][NextSearch]_vars

\* ------------------------------------------------------------------------
\* main_AI_vs_AI
\* ------------------------------------------------------------------------
\* While the game loop runs, call.player at "idle" is the loop's variable player;
\* the game is over at pc = "over", result.op being the line printed last, or
\* result.error the exception that ended the program.

\* the board after the moves of a game played from the empty board, A first,
\* the players alternating (lines 344-345 and 365)
Replay(moves) ==
  LET F[k \in 0 .. Len(moves)] ==
        IF k = 0 THEN initialize_board
        ELSE play(F[k - 1], moves[k], IF k % 2 = 1 THEN 1 ELSE -1)
  IN  F[Len(moves)]

\* lines 348-351: A moves by MCTS (v = 1), B by minimax (v = 2)
GameTurn ==
  /\ call.op = "main_AI_vs_AI"
  /\ ChooseMove(call.player, IF call.player = 1 THEN 1 ELSE 2)

\* lines 353-365: choose_move returned or raised
GameReport ==
  /\ pc = "done" /\ call.op = "choose_move"
  /\ IF result.error # "none"
       THEN /\ pc' = "over"
            /\ result' = [result EXCEPT !.op = "main_AI_vs_AI"]
            /\ UNCHANGED call
     ELSE IF result.move = None
       THEN /\ pc' = "over"
            /\ result' = [NoResult EXCEPT !.op = "DRAW"]
            /\ UNCHANGED call
     ELSE IF four_in_a_row(board, call.player)
       THEN /\ pc' = "over"
            /\ result' = [NoResult EXCEPT !.op = IF call.player = 1 THEN "A WON" ELSE "B WON"]
            /\ UNCHANGED call
     ELSE /\ pc' = "idle"
          /\ result' = NoResult
          /\ call' = [NoCall EXCEPT !.op = "main_AI_vs_AI", !.player = 0 - call.player]
  /\ mm' = NoMm
  /\ UNCHANGED <<board, plays, takebacks, mcts, leaf, ev>>

\* the first 38 moves of two games of main_AI_vs_AI: the first game went on to
\* fill the board with no four-in-a-row, the second was won by A's 39th move
DrawnGame ==
  Replay(<<3, 3, 4, 2, 6, 5, 3, 3, 6, 4, 6, 6, 2, 4, 4, 1, 3, 3, 2,
             2, 2, 0, 4, 6, 6, 2, 4, 0, 0, 0, 5, 5, 5, 5, 1, 1, 1, 1>>)
WonGame ==
  Replay(<<3, 3, 2, 4, 0, 1, 2, 2, 3, 2, 2, 3, 0, 0, 0, 3, 6, 6, 6,
             4, 4, 5, 5, 5, 4, 3, 4, 4, 6, 2, 0, 0, 5, 5, 5, 6, 6, 1>>)

\* positions of games of main_AI_vs_AI
GamePositions == {DrawnGame, WonGame}

\* the game loop is at its head on one of the positions, with the player whose
\* turn it is
InitGame ==
  /\ board \in GamePositions
  /\ pc = "idle"
  /\ call = [NoCall EXCEPT !.op = "main_AI_vs_AI",
                           !.player = IF round_number(board) % 2 = 0 THEN 1 ELSE -1]
  /\ result = NoResult
  /\ plays = round_number(board)
  /\ takebacks = 0
  /\ mcts = NoMcts
  /\ mm = NoMm
  /\ leaf = NoLeaf
  /\ ev = NoEv

NextGame ==
  \/ GameTurn
  \/ GameReport
  \/ MctsSelect \/ MctsExpand \/ MctsRollout \/ MctsBackpropagate \/ MctsReturn
  \/ MinimaxEnter \/ MinimaxLoop \/ MinimaxResume

SpecGame == InitGame /\ [][NextGame]_vars

\* ------------------------------------------------------------------------
\* Properties
\* ------------------------------------------------------------------------
Full(b) == round_number(b) = MAX_ROUNDS
Legal(b, c) == c \in Cols /\ b[c][COLUMN_HEIGHT - 1] = 0
Finished(op) == pc = "done" /\ call.op = op

\* four contiguous cells of player p starting at <<c, r>> and running in
\* direction d: up a column <<0, 1>>, along a row <<1, 0>>, rising <<1, 1>>,
\* falling <<1, -1>>
LineAt(b, p, c, r, d) ==
  \A i \in 0 .. (FOUR - 1) :
    /\ c + i * d[1] \in Cols
    /\ r + i * d[2] \in Rows
    /\ b[c + i * d[1]][r + i * d[2]] = p
Directions == {<<0, 1>>, <<1, 0>>, <<1, 1>>, <<1, -1>>}
HasLine(b, p) == \E c \in Cols, r \in Rows, d \in Directions : LineAt(b, p, c, r, d)
Rotate180(b) ==
  [c \in Cols |-> [r \in Rows |-> b[NUM_COLUMNS - 1 - c][COLUMN_HEIGHT - 1 - r]]]

\* the cells in which two boards differ
Diff(a, b) == {cr \in Cols \X Rows : a[cr[1]][cr[2]] # b[cr[1]][cr[2]]}
\* the number of discs in column c
Height(b, c) == Cardinality({r \in Rows : b[c][r] # 0})
\* board a is board b plus one disc of player p on top of column c
OneDiscAdded(a, b, c, p) ==
  /\ Legal(b, c)
  /\ Diff(a, b) = {<<c, Height(b, c)>>}
  /\ \A r \in Rows : r < Height(b, c) => b[c][r] # 0
  /\ a[c][Height(b, c)] = p

\* the legal columns in which player p completes a four-in-a-row
WinningCols(b, p) == {c \in Cols : Legal(b, c) /\ HasLine(play(b, c, p), p)}

Gravity(b) ==
  \A c \in Cols : \A r \in Rows : (r > 0 /\ b[c][r] # 0) => b[c][r - 1] # 0

\* C1 (as claimed): on the board a caller's operation leaves, terminal_state
\* reports a draw only if the board is full with no four-in-a-row of either
\* player, and on a full board with a four-in-a-row of a player it reports that
\* player's win.
C1_DrawOnlyWithoutLine ==
  pc = "done" =>
    /\ terminal_state(board) = 0
         => (Full(board) /\ ~HasLine(board, 1) /\ ~HasLine(board, -1))
    /\ \A p \in Players :
         (Full(board) /\ HasLine(board, p) /\ ~HasLine(board, 0 - p))
           => terminal_state(board) = p

\* C2 (as claimed): choose_move with either strategy on a board with no legal
\* move returns None without failing and leaves the board unchanged, and it
\* returns None only on such a board.
C2_NoMoveOnFullBoard ==
  Finished("choose_move") =>
    /\ valid_moves(call.before) = << >>
         => (result.error = "none" /\ result.move = None /\ board = call.before)
    /\ (result.error = "none" /\ result.move = None)
         => valid_moves(call.before) = << >>

\* C3: choose_move with either strategy on a board with a legal move returns a
\* column that was legal before the call, and the board after the call is the
\* board before it plus one disc of the calling player in the lowest empty cell
\* of that column.
C3_ChooseMovePlaysOneLegalDisc ==
  (Finished("choose_move") /\ valid_moves(call.before) # << >>) =>
    /\ result.error = "none"
    /\ Legal(call.before, result.move)
    /\ OneDiscAdded(board, call.before, result.move, call.player)

C3_Witness ==
  /\ Finished("choose_move")
  /\ call.args = <<2>>
  /\ MAX_ROUNDS - round_number(call.before) >= 4
  /\ result.move \in Cols
  /\ Height(call.before, result.move) = COLUMN_HEIGHT - 2

\* C4: on a board holding no disc or one disc choose_move returns column 3, on a
\* board holding two discs one of the columns 2, 3, 4, whatever the strategy;
\* the move is legal and is applied to the board.
C4_OpeningMoves ==
  (Finished("choose_move") /\ round_number(call.before) <= 2) =>
    /\ result.error = "none"
    /\ round_number(call.before) <= 1 => result.move = 3
    /\ round_number(call.before) = 2 => result.move \in {2, 3, 4}
    /\ OneDiscAdded(board, call.before, result.move, call.player)

C4_Witness ==
  /\ Finished("choose_move")
  /\ round_number(call.before) = 1
  /\ call.before[3][0] # 0
  /\ result.move = 3
  /\ board[3][1] = call.player

\* C5: a take_back on the column that was just played restores the board the
\* play was made on.
C5_PlayTakeBackRoundTrip ==
  (Finished("take_back") /\ call.undo) => board = call.origin

C5_Witness ==
  /\ Finished("take_back")
  /\ call.undo
  /\ Height(call.origin, call.args[1]) >= 1
  /\ Height(call.origin, call.args[1]) < COLUMN_HEIGHT
  /\ Diff(call.before, call.origin) # {}

\* C6: MCTS with an iteration budget of at least 1 on a board with a legal move
\* ends without failure and returns a column that is legal on that board.
C6_MctsReturnsLegalMove ==
  (Finished("MCTS") /\ call.args[1] >= 1 /\ valid_moves(call.before) # << >>) =>
    /\ result.error = "none"
    /\ Legal(call.before, result.move)

C6_Witness ==
  /\ Finished("MCTS")
  /\ call.args = <<1>>
  /\ Len(valid_moves(call.before)) >= 2
  /\ Legal(call.before, result.move)

\* C7: a minimax call on a non-full board on which its player has a legal column
\* completing a four-in-a-row returns at the win-in-one test (before the loop and
\* before the leaf evaluator) a legal completing column with the score
\* (MAX_ROUNDS - (r - 1)) \div 2 > 0, r being the number of discs on the board.
C7_WinInOne ==
  /\ \A k \in 1 .. Len(mm.stack) :
       mm.stack[k].pcf # "entry" => WinningCols(mm.stack[k].entry, mm.stack[k].player) = {}
  /\ (mm.ret.path # "none" /\ WinningCols(mm.ret.entry, mm.ret.player) # {}) =>
       /\ mm.ret.path = "win"
       /\ mm.ret.move \in WinningCols(mm.ret.entry, mm.ret.player)
       /\ mm.ret.score = (MAX_ROUNDS - (round_number(mm.ret.entry) - 1)) \div 2
       /\ mm.ret.score > 0

C7_Witness ==
  /\ mm.ret.path = "win"
  /\ mm.ret.depth > 1
  /\ Cardinality(WinningCols(mm.ret.entry, mm.ret.player)) = 1
  /\ Len(valid_moves(mm.ret.entry)) >= 2

\* C8: four_in_a_row(board, player) is true exactly if four contiguous cells
\* along a column, a row, the rising or the falling diagonal hold the player,
\* and so the result is the same on the board rotated by 180 degrees.
C8_FourInARowIffLine ==
  \A p \in Players :
    /\ four_in_a_row(board, p) <=> HasLine(board, p)
    /\ four_in_a_row(Rotate180(board), p) <=> four_in_a_row(board, p)

C8_Witness ==
  /\ Finished("play")
  /\ ~HasLine(call.before, 1)
  /\ four_in_a_row(board, 1)
  /\ \E c \in Cols, r \in Rows : LineAt(board, 1, c, r, <<1, -1>>)
  /\ \A c \in Cols, r \in Rows, d \in Directions \ {<<1, -1>>} : ~LineAt(board, 1, c, r, d)

\* a playout of _mc is running or has just ended, with at least one disc dropped
InPlayout == pc = "eval" /\ Len(ev.discs) >= 1
Alternates(discs) == \A i \in 1 .. (Len(discs) - 1) : discs[i + 1] = 0 - discs[i]

\* C9 (as claimed): in a playout of evaluate(board, player) the first disc is
\* played by the opponent of player and the players alternate after it.
C9_OpponentMovesFirst ==
  InPlayout => (ev.discs[1] = 0 - ev.player /\ Alternates(ev.discs))

\* C9 (amended): in a playout of evaluate(board, player) on a position that is
\* not won, the first disc is played by player itself; the players alternate on
\* every following ply, and the playout goes on only while neither player has a
\* four-in-a-row.
C9_PlayerMovesFirst ==
  /\ InPlayout => (ev.discs[1] = ev.player /\ Alternates(ev.discs))
  /\ (pc = "eval" /\ ev.phase = "mc") =>
       /\ ~HasLine(ev.b, 1) /\ ~HasLine(ev.b, -1)
       /\ round_number(ev.b) = round_number(board) + Len(ev.discs)

C9_Witness ==
  /\ pc = "eval" /\ ev.phase = "mc"
  /\ Len(ev.discs) >= 3
  /\ ev.discs[1] = ev.player
  /\ valid_moves(ev.b) # << >>

\* C10: the occupied cells of every column are contiguous from the bottom, and
\* between calls the number of discs on the board is the number of plays minus
\* the number of take-backs.
C10_Gravity ==
  /\ Gravity(board)
  /\ pc \in {"idle", "done"} => round_number(board) = plays - takebacks

C10_Witness ==
  /\ Finished("choose_move")
  /\ takebacks >= 2
  /\ result.move \in Cols
  /\ round_number(board) = MAX_ROUNDS - 1
  /\ plays > MAX_ROUNDS

\* the return statements of minimax
ReturnPaths == {"draw", "win", "prune", "leaf", "cutoff", "normal"}

\* C11: both search engines leave the caller's board unchanged. Every minimax
\* call, the recursive ones included, returns with the board equal to the board
\* it was given, whichever return statement it leaves by; the board stays the
\* board of the call all the time MCTS runs; and a direct call of either engine
\* ends on the board it was made on.
C11_EnginesRestoreBoard ==
  /\ mm.ret.path # "none" => (mm.ret.path \in ReturnPaths /\ mm.ret.exit = mm.ret.entry)
  /\ pc = "mcts" => board = call.before
  /\ (Finished("minimax") \/ Finished("MCTS")) => board = call.before

C11_Witness ==
  /\ pc = "minimax"
  /\ mm.ret.path = "cutoff"
  /\ mm.ret.depth >= 2
  /\ mm.ret.exit = mm.ret.entry
  /\ Len(mm.stack) >= 1
  /\ board = mm.ret.entry
  /\ board # call.before

\* the nodes on the way from node n up to the root, n and the root included
PathToRoot(tree, n) ==
  LET A[k \in 0 .. Len(tree)] == IF k = 0 THEN {} ELSE {k} \cup A[tree[k].parent]
  IN  A[n]

\* twice the win score a simulation won by winner (0: draw) adds to a node
Gain2(node, winner) ==
  IF winner = 0 THEN 1 ELSE IF winner = node.player THEN 2 ELSE 0

\* the visit counts and win scores while MCTS runs: the root has one visit per
\* finished iteration and every node has 0 <= wins <= visits
C12_Counts ==
  pc = "mcts" =>
    /\ mcts.it <= mcts.budget
    /\ mcts.phase = "best" <=> mcts.it = mcts.budget
    /\ mcts.tree[1].num_visits = mcts.it
    /\ \A n \in 1 .. Len(mcts.tree) :
         /\ 0 <= mcts.tree[n].num_wins2
         /\ mcts.tree[n].num_wins2 <= 2 * mcts.tree[n].num_visits
         /\ mcts.tree[n].num_visits <= mcts.it

\* one step of MCTS: the backpropagation step ends the iteration and updates
\* exactly the nodes on the path to the root; every other step of an iteration
\* leaves the counts of all nodes alone (a node added by expansion starts at 0)
C12_Step ==
  /\ (pc = "mcts" /\ mcts.phase = "backprop") =>
       /\ mcts'.it = mcts.it + 1
       /\ Len(mcts'.tree) = Len(mcts.tree)
       /\ mcts.winner \in {0, 1, -1}
       /\ \A n \in 1 .. Len(mcts.tree) :
            IF n \in PathToRoot(mcts.tree, mcts.node)
              THEN mcts'.tree[n] =
                     [mcts.tree[n] EXCEPT !.num_visits = @ + 1,
                                          !.num_wins2 = @ + Gain2(mcts.tree[n], mcts.winner)]
              ELSE mcts'.tree[n] = mcts.tree[n]
  /\ (pc = "mcts" /\ mcts.phase \in {"select", "rollout"}) =>
       /\ mcts'.it = mcts.it
       /\ mcts'.phase \in {"select", "rollout", "backprop"}
       /\ \A n \in 1 .. Len(mcts.tree) :
            /\ mcts'.tree[n].num_visits = mcts.tree[n].num_visits
            /\ mcts'.tree[n].num_wins2 = mcts.tree[n].num_wins2
       /\ \A n \in (Len(mcts.tree) + 1) .. Len(mcts'.tree) :
            mcts'.tree[n].num_visits = 0 /\ mcts'.tree[n].num_wins2 = 0

\* C12: every MCTS iteration runs backpropagation exactly once. On each node of
\* the path from the simulated node up to the root the visit count grows by 1
\* and the win score by 1 if the winner is the node's recorded player, by 0.5 on
\* a draw and by 0 otherwise; the nodes off the path are unchanged. After k
\* iterations the root has k visits, and every node has 0 <= wins <= visits.
C12_BackpropagationOncePerIteration == []C12_Counts /\ [][C12_Step]_vars

\* three iterations are done: one node lies off the last path, a path of three
\* nodes was updated, and a draw left half a win
C12_Witness ==
  /\ pc = "mcts" /\ mcts.phase = "best"
  /\ mcts.tree[1].num_visits = 3
  /\ Len(mcts.tree) = 4
  /\ \E n \in 2 .. 4 : mcts.tree[n].parent # 1 /\ mcts.tree[n].num_visits = 1
  /\ \E n \in 2 .. 4 : mcts.tree[n].parent = 1 /\ mcts.tree[n].num_visits = 1
  /\ \E n \in 1 .. 4 : mcts.tree[n].num_wins2 % 2 = 1

\* a playout of mc_simulation has just ended: tmp_board is its last board,
\* tmp_move the last column played and tmp_player the player who played it
PlayoutEnded == pc = "minimax" /\ leaf.phase = "iter" /\ leaf.i >= 1
\* the last move of the ended playout completed a four-in-a-row of its mover
PlayoutWon ==
  /\ HasLine(leaf.tmp_board, leaf.tmp_player)
  /\ ~HasLine(take_back(leaf.tmp_board, leaf.tmp_move), leaf.tmp_player)

\* C13 (as claimed): a playout of the leaf evaluator that ends with a
\* four-in-a-row completed by a move played on a board of r discs scores
\* (MAX_ROUNDS - (r - 1)) \div 2, the score the win-in-one test of minimax gives
\* that move, positive if the searching player made it and negative otherwise,
\* also when the move fills the board; a playout scores 0 only if it fills the
\* board with no four-in-a-row.
C13_LeafScoresLikeWinInOne ==
  PlayoutEnded =>
    LET before == take_back(leaf.tmp_board, leaf.tmp_move)
        r == round_number(before)
        win == can_win_next_move(before, leaf.tmp_player, <<leaf.tmp_move>>, r).score
        player == Top(mm.stack).player
    IN  /\ PlayoutWon =>
             /\ win = (MAX_ROUNDS - (r - 1)) \div 2
             /\ leaf.score = IF leaf.tmp_player = player THEN win ELSE 0 - win
        /\ leaf.score = 0 =>
             (Full(leaf.tmp_board) /\ ~HasLine(leaf.tmp_board, 1) /\ ~HasLine(leaf.tmp_board, -1))

\* plain negamax with the draw and win-in-one scoring of minimax and nothing
\* else: no window, no clipping, no pruning, no depth cutoff
RECURSIVE Negamax(_, _)
Negamax(b, p) ==
  LET r == round_number(b)
      vm == valid_moves(b)
      wins == {i \in 1 .. Len(vm) : HasLine(play(b, vm[i], p), p)}
      vals == {0 - Negamax(play(b, vm[i], p), 0 - p) : i \in 1 .. Len(vm)}
  IN  IF r = MAX_ROUNDS THEN 0
      ELSE IF wins # {} THEN (MAX_ROUNDS - (r - 1)) \div 2
      ELSE CHOOSE v \in vals : \A w \in vals : w <= v

\* the plain negamax value of playing column m on board b as player p
MoveValue(b, p, m) ==
  IF HasLine(play(b, m, p), p) THEN (MAX_ROUNDS - (round_number(b) - 1)) \div 2
  ELSE 0 - Negamax(play(b, m, p), 0 - p)

\* a direct minimax call with the full window has returned and no node of it
\* was handed to the leaf evaluator
FullWindowExact ==
  /\ Finished("minimax")
  /\ call.args[2] = -1000 /\ call.args[3] = 1000
  /\ "leaf" \notin mm.paths

\* C14: beta clipping and pruning are sound. A minimax call with the full
\* window in which the depth cutoff is never reached returns the score of plain
\* negamax (same draw and win-in-one scoring, no clipping, no prune, no beta
\* cutoff), and the move it returns attains that score; it returns no move only
\* on a full board.
C14_PruningSound ==
  FullWindowExact =>
    /\ result.error = "none"
    /\ result.score = Negamax(call.before, call.player)
    /\ IF Full(call.before) THEN result.move = None
       ELSE /\ Legal(call.before, result.move)
            /\ MoveValue(call.before, call.player, result.move) = result.score

\* the call searched a board with at least four empty cells and no win in one,
\* calls of it returned by the prune and by the beta cutoff, and the player loses
C14_Witness ==
  /\ FullWindowExact
  /\ MAX_ROUNDS - round_number(call.before) >= 4
  /\ WinningCols(call.before, call.player) = {}
  /\ {"prune", "cutoff", "normal"} \subseteq mm.paths
  /\ result.score = Negamax(call.before, call.player)
  /\ result.score < 0

\* the depth cutoff the running top-level minimax call was started with
StartedMaxDepth == mm.stack[1].max_depth

\* C15 (as claimed): in a minimax call started with max_depth = D, a node at
\* depth d that is not full, has no win in one and is not pruned is handed to
\* the leaf evaluator if and only if d > D; the nodes with d <= D are searched
\* by recursion.
C15_CallerDepthGoverns ==
  (pc = "minimax" /\ Len(mm.stack) >= 1) =>
    \A k \in 1 .. Len(mm.stack) :
      /\ mm.stack[k].pcf = "leaf" => mm.stack[k].depth > StartedMaxDepth
      /\ mm.stack[k].pcf \in {"loop", "wait"} => mm.stack[k].depth <= StartedMaxDepth

\* the places where a column is drawn at random
\* the leaf evaluator is about to draw the first move of a playout
LeafFirstChoice ==
  /\ pc = "minimax" /\ Len(mm.stack) >= 1 /\ Top(mm.stack).pcf = "leaf"
  /\ leaf.phase = "iter" /\ leaf.i < MC_ITERATIONS

C16_ChoicePoints ==
  /\ result.error # EmptyChoice
  /\ LeafFirstChoice => valid_moves(board) # << >>
  /\ (pc = "minimax" /\ leaf.phase = "ply") => Legal(leaf.tmp_board, leaf.tmp_move)
  /\ (Finished("choose_move") /\ round_number(call.before) = 2) =>
       (result.move \in {2, 3, 4} /\ Legal(call.before, result.move))
  /\ pc = "mcts" =>
       \A n \in 2 .. Len(mcts.tree) :
         Legal(mcts.tree[mcts.tree[n].parent].board, mcts.tree[n].move)

\* a step that plays a drawn column adds one disc of the mover to that column
C16_ChoiceSteps ==
  /\ (pc = "mcts" /\ mcts.phase = "rollout") =>
       IF valid_moves(mcts.simb) = << >>
         THEN mcts'.phase = "backprop" /\ mcts'.winner = 0
         ELSE mcts'.phase = "rollout" =>
                \E c \in Cols : OneDiscAdded(mcts'.simb, mcts.simb, c, mcts.simp)
  /\ (pc = "mcts" /\ mcts.phase = "select" /\ Len(mcts'.tree) > Len(mcts.tree)) =>
       /\ mcts.tree[mcts.node].next_moves # << >>
       /\ InSeq(mcts'.tree[Len(mcts'.tree)].move, mcts.tree[mcts.node].next_moves)
  /\ (pc = "eval" /\ ev.phase = "mc") =>
       IF valid_moves(ev.b) = << >>
         THEN ev'.phase = "sample" /\ ev'.discs = ev.discs
         ELSE ev'.phase = "mc" =>
                \E c \in Cols : OneDiscAdded(ev'.b, ev.b, c, 0 - ev.p)
  /\ (pc = "minimax" /\ leaf.phase = "ply" /\ pc' = "minimax") =>
       OneDiscAdded(leaf'.tmp_board, leaf.tmp_board, leaf.tmp_move, leaf.tmp_player)

\* C16: no column is ever drawn at random from an empty list. At every point
\* where a column is drawn (playout of the evaluator, expansion and rollout of
\* MCTS, first and later moves of the leaf evaluator, third opening move) the
\* list drawn from is not empty, and the drawn column is legal on the board it
\* is then played on.
C16_NoChoiceFromEmptyList == []C16_ChoicePoints /\ [][C16_ChoiceSteps]_vars

\* a playout of the leaf evaluator filled the board with its last move
C16_Witness ==
  /\ pc = "minimax" /\ leaf.phase = "iter" /\ leaf.i >= 1
  /\ Full(leaf.tmp_board)
  /\ ~HasLine(leaf.tmp_board, 1) /\ ~HasLine(leaf.tmp_board, -1)
  /\ MAX_ROUNDS - round_number(board) >= 2
  /\ leaf.score = 0

\* the elements of a sequence
Range(seq) == {seq[i] : i \in 1 .. Len(seq)}
\* no element occurs twice in the sequence
NoDuplicates(seq) == Cardinality(Range(seq)) = Len(seq)

\* node n of the tree and its children
WellFormedNode(tree, n) ==
  LET node == tree[n]
      child_moves == {tree[c].move : c \in Range(node.childs)}
  IN  /\ NoDuplicates(node.childs)
      /\ NoDuplicates(node.next_moves)
      /\ Cardinality(child_moves) = Len(node.childs)
      /\ child_moves \cap Range(node.next_moves) = {}
      /\ child_moves \cup Range(node.next_moves) = {c \in Cols : Legal(node.board, c)}
      /\ \A c \in Range(node.childs) :
           /\ c \in (n + 1) .. Len(tree)
           /\ tree[c].parent = n
           /\ tree[c].player = 0 - node.player
           /\ OneDiscAdded(tree[c].board, node.board, tree[c].move, tree[c].player)
      /\ n > 1 => (node.parent \in 1 .. (n - 1) /\ n \in Range(tree[node.parent].childs))

\* C17: the MCTS tree after any number of iterations. For every node, the moves
\* of its children are pairwise distinct, disjoint from its untried moves, and
\* together with them exactly the legal moves of the node's board; the board of
\* a child is the board of its parent plus one disc of the child's recorded
\* player in the child's move column, and that player is the negation of the
\* parent's. Every iteration adds at most one node.
C17_TreeStructure ==
  pc = "mcts" =>
    /\ Len(mcts.tree) >= 1
    /\ mcts.tree[1].parent = 0 /\ mcts.tree[1].board = call.before
    /\ mcts.tree[1].player = 0 - call.player
    /\ \A n \in 1 .. Len(mcts.tree) : WellFormedNode(mcts.tree, n)
    /\ Len(mcts.tree) <= 1 + mcts.it + (IF mcts.phase \in {"rollout", "backprop"} THEN 1 ELSE 0)

\* three iterations built a tree of four nodes: the root is fully expanded with
\* two children, and one of them has a child and keeps an untried move
C17_Witness ==
  /\ pc = "mcts" /\ mcts.it = 3
  /\ Len(mcts.tree) = 4
  /\ Len(mcts.tree[1].childs) = 2
  /\ mcts.tree[1].next_moves = << >>
  /\ \E n \in 2 .. 4 :
       /\ mcts.tree[n].parent # 1
       /\ mcts.tree[mcts.tree[n].parent].next_moves # << >>

\* selection is about to evaluate UCB1 for the children of the current node
AtSelection ==
  /\ pc = "mcts" /\ mcts.phase = "select"
  /\ mcts.tree[mcts.node].childs # << >>
  /\ mcts.tree[mcts.node].next_moves = << >>
\* the win rate of the root's children is about to be evaluated
AtBestNode == pc = "mcts" /\ mcts.phase = "best"

\* C18: division safety in MCTS. When UCB1 is evaluated for a child during
\* selection, the child and its parent have at least one visit; when the win
\* rate of a root child is evaluated, the child has at least one visit. No run
\* ends with a division by zero.
C18_DivisionSafety ==
  /\ result.error # "ZeroDivisionError"
  /\ AtSelection =>
       /\ mcts.tree[mcts.node].num_visits >= 1
       /\ \A c \in Range(mcts.tree[mcts.node].childs) : mcts.tree[c].num_visits >= 1
  /\ AtBestNode =>
       \A c \in Range(mcts.tree[1].childs) : mcts.tree[c].num_visits >= 1

\* selection at a fully expanded node below the root, its children visited once
C18_Witness ==
  /\ AtSelection
  /\ mcts.node # 1
  /\ Len(mcts.tree[mcts.node].childs) >= 1
  /\ mcts.tree[mcts.node].num_visits >= 2
  /\ \A c \in Range(mcts.tree[mcts.node].childs) : mcts.tree[c].num_visits = 1

\* the board holds a four-in-a-row of some player
Won(b) == HasLine(b, 1) \/ HasLine(b, -1)

\* C19 (as claimed): MCTS never searches past a finished game. No node of the
\* tree is the child of a node whose board holds a four-in-a-row; so the board
\* of a node holds a four-in-a-row of at most one player, and the result
\* backpropagated from a won node is the player who completed the line, the
\* node's recorded player.
C19_NoSearchPastWin ==
  pc = "mcts" =>
    /\ \A n \in 2 .. Len(mcts.tree) : ~Won(mcts.tree[mcts.tree[n].parent].board)
    /\ \A n \in 1 .. Len(mcts.tree) :
         ~(HasLine(mcts.tree[n].board, 1) /\ HasLine(mcts.tree[n].board, -1))
    /\ (mcts.phase = "backprop" /\ Won(mcts.tree[mcts.node].board)) =>
         /\ HasLine(mcts.tree[mcts.node].board, mcts.tree[mcts.node].player)
         /\ mcts.winner = mcts.tree[mcts.node].player

\* C20 (as claimed): a game of main_AI_vs_AI ends after at most 42 moves by
\* reporting a winner or DRAW, never by a failure; when the board fills with no
\* four-in-a-row the game reports DRAW.
C20_GameEndsWithReport ==
  /\ plays <= MAX_ROUNDS
  /\ pc = "over" =>
       /\ result.error = "none"
       /\ result.op \in {"A WON", "B WON", "DRAW"}
       /\ (Full(board) /\ ~Won(board)) => result.op = "DRAW"

====
